---- MODULE Spec2Model ----
(***************************************************************************)
(* Model of the Live-Job-Tracking core: the rate limiter                   *)
(* (src/rate_limiter.py), the paginated fetch with its short-lived cache   *)
(* and the snapshot aggregation (src/data_processor.py).                   *)
(*                                                                         *)
(* Time is the wall clock in seconds.  Python's None is the empty tuple    *)
(* None and a present value x is the one-element tuple Some(x).            *)
(***************************************************************************)
EXTENDS Integers, Sequences, FiniteSets, TLC

VARIABLES
    clock,                \* datetime.now(), in seconds
    requests_per_minute,  \* RateLimiter.requests_per_minute
    buffer,               \* RateLimiter.buffer
    requests,             \* RateLimiter.requests: recorded timestamps
    usage,                \* last dictionary returned by get_current_usage
    released,             \* history: the time at which each wait_if_needed call returned
    slept,                \* history: how long each wait_if_needed call slept
    cached_issues,        \* self._cached_issues: None or the fetched issue list
    df,                   \* the frame of processed issues, None before process_issues
    df_locations,         \* the location filter applied to df, empty when none
    table,                \* the call and the result of aggregate_data, None before it
    JIRA_URL,             \* whether the service base address is set
    server_issues,        \* the result set of the search on the server
    last_fetch_time,      \* self._last_fetch_time: None or the time of the last fetch
    pc,                   \* "idle", or "fetching" inside the loop of fetch_issues
    call,                 \* the arguments and the cache decision of the latest get_data call
    all_issues,           \* fetch_issues: the records accumulated so far
    start_at,             \* fetch_issues: the offset of the next request
    pages,                \* history: the responses to the requests of the current fetch
    result,               \* what the latest get_data call returned or raised, None while it runs
    call_count,           \* history: get_data calls made
    fetch_count,          \* history: fetch_issues calls made
    wait_calls,           \* history: wait_if_needed calls completed in the current fetch
    fn,                   \* the pure function under call, "" when none
    arg,                  \* its argument
    ret                   \* None before it returns, then what it returned

limiterVars == <<clock, requests_per_minute, buffer, requests, usage, released, slept>>
snapshotVars == <<df, df_locations, table>>
fetchVars == <<JIRA_URL, server_issues, last_fetch_time, pc, call, all_issues, start_at,
               pages, result, call_count, fetch_count, wait_calls>>
functionVars == <<fn, arg, ret>>
vars == <<limiterVars, cached_issues, snapshotVars, fetchVars, functionVars>>

----------------------------------------------------------------------------
(* Bounds of the exploration *)

TickSeconds == 20     \* granularity of the passage of time between calls
MaxClock == 200       \* no idle time passes once the clock is beyond this
MaxCalls == 6         \* wait_if_needed calls explored per limiter
BurstTail == 2        \* calls explored after a large quota's threshold call

----------------------------------------------------------------------------
(* Generic helpers *)

None == <<>>
Some(x) == <<x>>

Min(a, b) == IF a <= b THEN a ELSE b

----------------------------------------------------------------------------
(* Rate limiter, src/rate_limiter.py *)

\* timedelta(minutes=1), in seconds
Minute == 60

\* the constructor's parameters <<requests_per_minute, buffer_percentage in
\* percent>>; <<50, 10>> are the defaults
RateLimiterConfigs == {<<50, 10>>, <<3, 10>>, <<4, 50>>}

\* int(requests_per_minute * buffer_percentage)
SafetyBuffer(rpm, pct) == (rpm * pct) \div 100

\* [req_time for req_time in self.requests if req_time > minute_ago]
RecentRequests(reqs, now) == SelectSeq(reqs, LAMBDA req_time : req_time > now - Minute)

ApproachingLimitStrict(n, rpm, buf) == n > rpm - buf

\* len(self.requests) >= (self.requests_per_minute - self.buffer)
ApproachingLimit(n, rpm, buf) == n >= rpm - buf

\* the seconds wait_if_needed sleeps when called at time now
SleepTime(reqs, now, rpm, buf) ==
    LET kept == RecentRequests(reqs, now)
    IN  IF ApproachingLimit(Len(kept), rpm, buf)
        THEN LET oldest_request == kept[1]
                 sleep_time == oldest_request + Minute - now
             IN  IF sleep_time > 0 THEN sleep_time ELSE 0
        ELSE 0

\* self.requests after the call: the pruned list plus the time of the call
RecordedRequests(reqs, now) == Append(RecentRequests(reqs, now), now)

CurrentRequestsNoWindow(reqs, now) == Len(reqs)

\* len([req for req in self.requests if req > minute_ago])
CurrentRequests(reqs, now) == Len(SelectSeq(reqs, LAMBDA req : req > now - Minute))

UsageOf(reqs, now, rpm, buf) ==
    [current_requests |-> CurrentRequests(reqs, now),
     limit |-> rpm,
     remaining |-> rpm - CurrentRequests(reqs, now),
     buffer |-> buf]

\* the fetch half of the processor at rest, for the specifications that do not run it
FetchIdle ==
    /\ JIRA_URL = TRUE
    /\ server_issues = <<>>
    /\ last_fetch_time = None
    /\ pc = "idle"
    /\ call = None
    /\ all_issues = <<>>
    /\ start_at = 0
    /\ pages = <<>>
    /\ result = None
    /\ call_count = 0
    /\ fetch_count = 0
    /\ wait_calls = 0

\* no pure function under call
FunctionsIdle ==
    /\ fn = ""
    /\ arg = <<>>
    /\ ret = None

InitRateLimiter ==
    /\ clock = 0
    /\ \E cfg \in RateLimiterConfigs :
          /\ requests_per_minute = cfg[1]
          /\ buffer = SafetyBuffer(cfg[1], cfg[2])
    /\ requests = <<>>
    /\ usage = None
    /\ released = <<>>
    /\ slept = <<>>
    /\ cached_issues = None
    /\ df = None
    /\ df_locations = <<>>
    /\ table = None
    /\ FetchIdle
    /\ FunctionsIdle

\* A quota too large for MaxCalls is explored as a burst: the calls up to and
\* including the first one at the threshold come back to back, BurstTail more
\* calls follow it.
Threshold == requests_per_minute - buffer
CallLimit == IF Threshold < MaxCalls THEN MaxCalls ELSE Threshold + 1 + BurstTail
InBurst == Threshold >= MaxCalls /\ Len(released) <= Threshold

\* RateLimiter.wait_if_needed: prune, sleep when at the threshold, record
WaitIfNeeded ==
    /\ Len(released) < CallLimit
    /\ LET now == clock
           sleep_time == SleepTime(requests, now, requests_per_minute, buffer)
       IN  /\ clock' = now + sleep_time
           /\ requests' = RecordedRequests(requests, now)
           /\ released' = Append(released, now + sleep_time)
           /\ slept' = Append(slept, sleep_time)
    /\ UNCHANGED <<requests_per_minute, buffer, usage>>
    /\ UNCHANGED <<cached_issues, snapshotVars, fetchVars, functionVars>>

GetCurrentUsageRecording ==
    /\ usage' = Some(UsageOf(requests, clock, requests_per_minute, buffer))
    /\ requests' = Append(requests, clock)
    /\ UNCHANGED <<clock, requests_per_minute, buffer, released, slept>>
    /\ UNCHANGED <<cached_issues, snapshotVars, fetchVars, functionVars>>

\* RateLimiter.get_current_usage
GetCurrentUsage ==
    /\ usage' = Some(UsageOf(requests, clock, requests_per_minute, buffer))
    /\ UNCHANGED <<clock, requests_per_minute, buffer, requests, released, slept>>
    /\ UNCHANGED <<cached_issues, snapshotVars, fetchVars, functionVars>>

\* time passes while the single caller is between calls
Tick ==
    /\ ~InBurst
    /\ clock + TickSeconds <= MaxClock
    /\ clock' = clock + TickSeconds
    /\ UNCHANGED <<requests_per_minute, buffer, requests, usage, released, slept>>
    /\ UNCHANGED <<cached_issues, snapshotVars, fetchVars, functionVars>>

NextRateLimiter == WaitIfNeeded \/ GetCurrentUsage \/ Tick

SpecRateLimiter == InitRateLimiter /\ [][NextRateLimiter]_vars

----------------------------------------------------------------------------
(* Text: a Python str is the tuple of its characters *)

UpperLetters == <<"A", "B", "C", "D", "E", "F", "G", "H", "I", "J", "K", "L", "M", "N", "O", "P", "Q", "R", "S", "T", "U", "V", "W", "X", "Y", "Z">>
LowerLetters == <<"a", "b", "c", "d", "e", "f", "g", "h", "i", "j", "k", "l", "m", "n", "o", "p", "q", "r", "s", "t", "u", "v", "w", "x", "y", "z">>
Digits == <<"0", "1", "2", "3", "4", "5", "6", "7", "8", "9">>

\* the lower-case and the upper-case form of every letter
LowerMap == [c \in {UpperLetters[i] : i \in DOMAIN UpperLetters} |->
                LowerLetters[CHOOSE i \in DOMAIN UpperLetters : UpperLetters[i] = c]]
UpperMap == [c \in {LowerLetters[i] : i \in DOMAIN LowerLetters} |->
                UpperLetters[CHOOSE i \in DOMAIN LowerLetters : LowerLetters[i] = c]]
DigitValue == [c \in {Digits[i] : i \in DOMAIN Digits} |->
                (CHOOSE i \in DOMAIN Digits : Digits[i] = c) - 1]

IsUpper(c) == c \in DOMAIN LowerMap
IsDigit(c) == c \in DOMAIN DigitValue
\* the characters \s matches that occur in summaries
IsSpace(c) == c \in {" ", "\t", "\n", "\r"}

\* str.lower and str.upper, character by character
LowerChar(c) == IF c \in DOMAIN LowerMap THEN LowerMap[c] ELSE c
UpperChar(c) == IF c \in DOMAIN UpperMap THEN UpperMap[c] ELSE c
Lower(s) == [i \in DOMAIN s |-> LowerChar(s[i])]
Upper(s) == [i \in DOMAIN s |-> UpperChar(s[i])]

\* sub in s
Contains(s, sub) ==
    \E i \in 1..(Len(s) - Len(sub) + 1) : SubSeq(s, i, i + Len(sub) - 1) = sub

\* int() of a run of decimal digits
RECURSIVE ParseInt(_)
ParseInt(ds) ==
    IF ds = <<>> THEN 0
    ELSE 10 * ParseInt(SubSeq(ds, 1, Len(ds) - 1)) + DigitValue[ds[Len(ds)]]

\* the last index of the run of digits that starts at i
RECURSIVE DigitRunEnd(_, _)
DigitRunEnd(s, i) ==
    IF i < Len(s) /\ IsDigit(s[i + 1]) THEN DigitRunEnd(s, i + 1) ELSE i

\* re.compile(r'\d+').findall(s) from index i on: the maximal runs of digits
RECURSIVE DigitRunsFrom(_, _)
DigitRunsFrom(s, i) ==
    IF i > Len(s) THEN <<>>
    ELSE IF ~IsDigit(s[i]) THEN DigitRunsFrom(s, i + 1)
    ELSE <<SubSeq(s, i, DigitRunEnd(s, i))>> \o DigitRunsFrom(s, DigitRunEnd(s, i) + 1)

\* NUMBER_PATTERN.findall(s)
NUMBER_PATTERN(s) == DigitRunsFrom(s, 1)

\* the index of the first occurrence of character c in s after index i, 0 when none
FirstAfter(s, i, c) ==
    IF \E j \in (i + 1)..Len(s) : s[j] = c
    THEN CHOOSE j \in (i + 1)..Len(s) : s[j] = c /\ \A k \in (i + 1)..(j - 1) : s[k] # c
    ELSE 0

----------------------------------------------------------------------------
(* Stage classifier, JiraDataProcessor.determine_stage *)

open_statuses == {<<"o", "p", "e", "n">>}
testing_statuses == {<<"t", "e", "s", "t", "i", "n", "g">>}
sample_prep_statuses ==
    {<<"s", "a", "m", "p", "l", "e", " ", "p", "r", "e", "p">>,
     <<"s", "a", "m", "p", "l", "e", " ", "p", "r", "e", "p", "a", "r", "a", "t", "i", "o", "n">>}
report_statuses == {<<"r", "e", "p", "o", "r", "t">>}

determine_stage_as_written(status) ==
    LET s == status
    IN  IF s \in testing_statuses THEN "Testing"
        ELSE IF s \in sample_prep_statuses THEN "Sample Preparation"
        ELSE IF s \in open_statuses THEN "Open"
        ELSE IF s \in report_statuses THEN "Report"
        ELSE "Other"

determine_stage(status) ==
    LET s == Lower(status)
    IN  IF s \in testing_statuses THEN "Testing"
        ELSE IF s \in sample_prep_statuses THEN "Sample Preparation"
        ELSE IF s \in open_statuses THEN "Open"
        ELSE IF s \in report_statuses THEN "Report"
        ELSE "Other"

----------------------------------------------------------------------------
(* Job-number parser, JiraDataProcessor.extract_test_number *)

months ==
    {<<"J", "a", "n", "u", "a", "r", "y">>,
     <<"F", "e", "b", "r", "u", "a", "r", "y">>,
     <<"M", "a", "r", "c", "h">>,
     <<"A", "p", "r", "i", "l">>,
     <<"M", "a", "y">>,
     <<"J", "u", "n", "e">>,
     <<"J", "u", "l", "y">>,
     <<"A", "u", "g", "u", "s", "t">>,
     <<"S", "e", "p", "t", "e", "m", "b", "e", "r">>,
     <<"O", "c", "t", "o", "b", "e", "r">>,
     <<"N", "o", "v", "e", "m", "b", "e", "r">>,
     <<"D", "e", "c", "e", "m", "b", "e", "r">>,
     <<"J", "a", "n">>,
     <<"F", "e", "b">>,
     <<"M", "a", "r">>,
     <<"A", "p", "r">>,
     <<"J", "u", "n">>,
     <<"J", "u", "l">>,
     <<"A", "u", "g">>,
     <<"S", "e", "p">>,
     <<"O", "c", "t">>,
     <<"N", "o", "v">>,
     <<"D", "e", "c">>}

\* PARENS_PATTERN r'\(([^)]+)\)' matches at i: s[i] is "(" and the first ")"
\* after it is at least two characters further
ParensMatchAt(s, i) == s[i] = "(" /\ FirstAfter(s, i, ")") >= i + 2

\* PARENS_PATTERN.findall(job_number)[0] wrapped in Some, None when the list is empty
FirstParens(s) ==
    IF \E i \in DOMAIN s : ParensMatchAt(s, i)
    THEN LET i == CHOOSE k \in DOMAIN s : ParensMatchAt(s, k) /\ \A m \in 1..(k - 1) : ~ParensMatchAt(s, m)
         IN  Some(SubSeq(s, i + 1, FirstAfter(s, i, ")") - 1))
    ELSE None

\* r'\((\d+)\)' matches at i: "(", one or more digits, ")"
NumInParensAt(s, i) ==
    /\ i + 2 <= Len(s)
    /\ s[i] = "("
    /\ IsDigit(s[i + 1])
    /\ DigitRunEnd(s, i + 1) < Len(s)
    /\ s[DigitRunEnd(s, i + 1) + 1] = ")"

NumInParensValue(s, i) == ParseInt(SubSeq(s, i + 1, DigitRunEnd(s, i + 1)))

\* ARROW_NUM_PATTERN r'-->[^(]*\((\d+)\)' matches at i: the arrow, then the
\* first "(" after it opens a parenthesized number
ArrowNumAt(s, i) ==
    /\ i + 2 <= Len(s)
    /\ SubSeq(s, i, i + 2) = <<"-", "-", ">">>
    /\ FirstAfter(s, i + 2, "(") # 0
    /\ NumInParensAt(s, FirstAfter(s, i + 2, "("))

\* ARROW_NUM_PATTERN.search(job_number): int(group(1)) in Some, or None
ARROW_NUM_PATTERN(s) ==
    IF \E i \in DOMAIN s : ArrowNumAt(s, i)
    THEN LET i == CHOOSE k \in DOMAIN s : ArrowNumAt(s, k) /\ \A m \in 1..(k - 1) : ~ArrowNumAt(s, m)
         IN  Some(NumInParensValue(s, FirstAfter(s, i + 2, "(")))
    ELSE None

\* NUM_IN_PARENS_PATTERN.search(job_number): int(group(1)) in Some, or None
NUM_IN_PARENS_PATTERN(s) ==
    IF \E i \in DOMAIN s : NumInParensAt(s, i)
    THEN LET i == CHOOSE k \in DOMAIN s : NumInParensAt(s, k) /\ \A m \in 1..(k - 1) : ~NumInParensAt(s, m)
         IN  Some(NumInParensValue(s, i))
    ELSE None

\* s.split('=')[0]
BeforeEquals(s) ==
    IF FirstAfter(s, 0, "=") = 0 THEN s ELSE SubSeq(s, 1, FirstAfter(s, 0, "=") - 1)

RECURSIVE SumInts(_)
SumInts(runs) == IF runs = <<>> THEN 0 ELSE ParseInt(Head(runs)) + SumInts(Tail(runs))

Abs(x) == IF x < 0 THEN 0 - x ELSE x

extract_test_number_arrow_first(job_number) ==
    LET numbers == FirstParens(job_number)
    IN  IF numbers = None THEN Some(0)
        ELSE IF Contains(job_number, <<"-", "-", ">">>)
             THEN IF ARROW_NUM_PATTERN(job_number) # None THEN ARROW_NUM_PATTERN(job_number)
                  ELSE IF NUM_IN_PARENS_PATTERN(job_number) # None THEN NUM_IN_PARENS_PATTERN(job_number)
                  ELSE Some(0)
        ELSE IF \E month \in months : Contains(numbers[1], month) THEN Some(0)
        ELSE IF Contains(numbers[1], <<"-">>)
             THEN LET nums == NUMBER_PATTERN(BeforeEquals(numbers[1]))
                  IN  IF Len(nums) >= 2
                      THEN Some(Abs(ParseInt(nums[1]) - ParseInt(nums[2])))
                      ELSE None
        ELSE IF Contains(numbers[1], <<"+">>)
             THEN Some(SumInts(NUMBER_PATTERN(numbers[1])))
        ELSE LET nums == NUMBER_PATTERN(numbers[1])
             IN  IF nums # <<>> THEN Some(ParseInt(nums[1])) ELSE Some(0)

\* extract_test_number: Some(n) for a returned integer; None is Python's
\* None, returned when the '-' branch finds fewer than two numbers and the
\* function falls off its end
extract_test_number(job_number) ==
    LET numbers == FirstParens(job_number)
    IN  IF numbers = None THEN Some(0)
        ELSE IF \E month \in months : Contains(numbers[1], month) THEN Some(0)
        ELSE IF Contains(job_number, <<"-", "-", ">">>)
             THEN IF ARROW_NUM_PATTERN(job_number) # None THEN ARROW_NUM_PATTERN(job_number)
                  ELSE IF NUM_IN_PARENS_PATTERN(job_number) # None THEN NUM_IN_PARENS_PATTERN(job_number)
                  ELSE Some(0)
        ELSE IF Contains(numbers[1], <<"-">>)
             THEN LET nums == NUMBER_PATTERN(BeforeEquals(numbers[1]))
                  IN  IF Len(nums) >= 2
                      THEN Some(Abs(ParseInt(nums[1]) - ParseInt(nums[2])))
                      ELSE None
        ELSE IF Contains(numbers[1], <<"+">>)
             THEN Some(SumInts(NUMBER_PATTERN(numbers[1])))
        ELSE LET nums == NUMBER_PATTERN(numbers[1])
             IN  IF nums # <<>> THEN Some(ParseInt(nums[1])) ELSE Some(0)

\* re.match(r'^[A-Z]{4}\d{4}\.\d\s+\([^)]*\)', job_number)
RECURSIVE SpaceRunEnd(_, _)
SpaceRunEnd(s, i) ==
    IF i < Len(s) /\ IsSpace(s[i + 1]) THEN SpaceRunEnd(s, i + 1) ELSE i

job_pattern_any_case(s) ==
    /\ Len(s) >= 13
    /\ \A i \in 1..4 : IsUpper(UpperChar(s[i]))
    /\ \A i \in 5..8 : IsDigit(s[i])
    /\ s[9] = "."
    /\ IsDigit(s[10])
    /\ IsSpace(s[11])
    /\ SpaceRunEnd(s, 11) < Len(s)
    /\ s[SpaceRunEnd(s, 11) + 1] = "("
    /\ FirstAfter(s, SpaceRunEnd(s, 11) + 1, ")") # 0

job_pattern(s) ==
    /\ Len(s) >= 13
    /\ \A i \in 1..4 : IsUpper(s[i])
    /\ \A i \in 5..8 : IsDigit(s[i])
    /\ s[9] = "."
    /\ IsDigit(s[10])
    /\ IsSpace(s[11])
    /\ SpaceRunEnd(s, 11) < Len(s)
    /\ s[SpaceRunEnd(s, 11) + 1] = "("
    /\ FirstAfter(s, SpaceRunEnd(s, 11) + 1, ")") # 0

\* job_number.startswith(tuple('ABCDEFGHIJKLMNOPQRSTUVWXYZ'))
StartsWithUpper(s) == Len(s) >= 1 /\ IsUpper(s[1])

\* the two validity checks of process_issues
ValidJobNumber(s) == StartsWithUpper(s) /\ job_pattern(s)

----------------------------------------------------------------------------
(* Issue processing, JiraDataProcessor.process_issues *)

\* Timestamps of issues count hours; .date() is the day they fall on.
DayHours == 24
DateOf(ts) == ts \div DayHours

\* the location derived from the labels
LocationOf(labels) ==
    LET upper == {Upper(labels[i]) : i \in DOMAIN labels}
    IN  IF <<"Y", "E", "G">> \in upper THEN "Edmonton"
        ELSE IF <<"Y", "U", "L">> \in upper THEN "Montreal"
        ELSE "Toronto"

\* the status items of one changelog history, stamped with the history's time
RECURSIVE StatusItems(_, _)
StatusItems(created, items) ==
    IF items = <<>> THEN <<>>
    ELSE (IF Head(items).field = "status"
          THEN <<[date |-> created,
                  from_status |-> Head(items).fromString,
                  to_status |-> Head(items).toString]>>
          ELSE <<>>) \o StatusItems(created, Tail(items))

\* status_changes of an issue: the status items of all histories, in stored order
RECURSIVE StatusChanges(_)
StatusChanges(histories) ==
    IF histories = <<>> THEN <<>>
    ELSE StatusItems(Head(histories).created, Head(histories).items)
         \o StatusChanges(Tail(histories))

\* the row process_issues builds for a valid issue
ProcessedRow(issue) ==
    [key |-> issue.key,
     job_number |-> issue.summary,
     status |-> issue.status,
     created_date |-> issue.created,
     stage |-> determine_stage(issue.status),
     status_changes |-> StatusChanges(issue.histories),
     location |-> LocationOf(issue.labels)]

\* processed_data and invalid_jobs after the loop over the issues
RECURSIVE ProcessedData(_)
ProcessedData(issues) ==
    IF issues = <<>> THEN <<>>
    ELSE (IF ValidJobNumber(Head(issues).summary) THEN <<ProcessedRow(Head(issues))>> ELSE <<>>)
         \o ProcessedData(Tail(issues))

RECURSIVE InvalidJobs(_)
InvalidJobs(issues) ==
    IF issues = <<>> THEN <<>>
    ELSE (IF ValidJobNumber(Head(issues).summary)
          THEN <<>>
          ELSE <<[key |-> Head(issues).key, job |-> Head(issues).summary]>>)
         \o InvalidJobs(Tail(issues))

other_status_priority ==
    <<<<"q", "u", "o", "t", "a", "t", "i", "o", "n">>,
      <<"i", "n", " ", "p", "r", "o", "g", "r", "e", "s", "s">>,
      <<"r", "e", "v", "i", "e", "w">>,
      <<"r", "e", "p", "o", "r", "t", "e", "d">>,
      <<"i", "n", "v", "o", "i", "c", "e", "d">>,
      <<"o", "n", " ", "h", "o", "l", "d">>,
      <<"c", "a", "n", "c", "e", "l", "l", "e", "d">>,
      <<"o", "t", "h", "e", "r">>>>

\* stage_priority: Other is not in the mapping, its NaN sorts last
StagePriority(stage) ==
    CASE stage = "Open" -> 0
      [] stage = "Sample Preparation" -> 1
      [] stage = "Testing" -> 2
      [] stage = "Report" -> 3
      [] OTHER -> 4

StatusPriority(status) ==
    IF \E i \in DOMAIN other_status_priority : other_status_priority[i] = Lower(status)
    THEN (CHOOSE i \in DOMAIN other_status_priority : other_status_priority[i] = Lower(status)) - 1
    ELSE Len(other_status_priority)

\* row a sorts strictly before row b under ['stage_priority', 'status_priority', 'created_date']
RowBefore(a, b) ==
    \/ StagePriority(a.stage) < StagePriority(b.stage)
    \/ /\ StagePriority(a.stage) = StagePriority(b.stage)
       /\ \/ StatusPriority(a.status) < StatusPriority(b.status)
          \/ /\ StatusPriority(a.status) = StatusPriority(b.status)
             /\ a.created_date < b.created_date

\* df.sort_values(...): rows with equal keys keep their order
RECURSIVE InsertRow(_, _)
InsertRow(sorted, row) ==
    IF sorted = <<>> THEN <<row>>
    ELSE IF RowBefore(row, Head(sorted)) THEN <<row>> \o sorted
    ELSE <<Head(sorted)>> \o InsertRow(Tail(sorted), row)

RECURSIVE SortRows(_)
SortRows(rows) ==
    IF rows = <<>> THEN <<>>
    ELSE InsertRow(SortRows(SubSeq(rows, 1, Len(rows) - 1)), rows[Len(rows)])

\* process_issues: with no valid issue the frame has no columns and
\* df['stage'] raises KeyError
process_issues(issues) ==
    IF ProcessedData(issues) = <<>>
    THEN [error |-> "KeyError", rows |-> <<>>, invalid_jobs |-> InvalidJobs(issues)]
    ELSE [error |-> "None", rows |-> SortRows(ProcessedData(issues)),
          invalid_jobs |-> InvalidJobs(issues)]

\* df[df['location'].isin(locations)]
FilterLocation(rows, locations) ==
    SelectSeq(rows, LAMBDA row : \E i \in DOMAIN locations : locations[i] = row.location)

----------------------------------------------------------------------------
(* Snapshot aggregation, JiraDataProcessor.aggregate_data *)

STAGE_ORDER == <<"Open", "Sample Preparation", "Testing", "Report">>

DateRangeExclusive(start, end) == [i \in 1..(end - start) |-> start + i - 1]

\* pd.date_range(start=start_date, end=end_date) as a list of days
DateRange(start, end) == [i \in 1..(end - start + 1) |-> start + i - 1]

\* [change for change in issue['status_changes'] if change['date'].date() <= date]
RelevantChanges(issue, date) ==
    SelectSeq(issue.status_changes, LAMBDA change : DateOf(change.date) <= date)

\* sorted(changes, key=lambda x: x['date']): equal dates keep their order
RECURSIVE InsertChange(_, _)
InsertChange(sorted, change) ==
    IF sorted = <<>> THEN <<change>>
    ELSE IF change.date < Head(sorted).date THEN <<change>> \o sorted
    ELSE <<Head(sorted)>> \o InsertChange(Tail(sorted), change)

RECURSIVE SortChanges(_)
SortChanges(changes) ==
    IF changes = <<>> THEN <<>>
    ELSE InsertChange(SortChanges(SubSeq(changes, 1, Len(changes) - 1)), changes[Len(changes)])

LastChangeAsStored(changes) == changes[Len(changes)]

\* sorted(relevant_changes, key=lambda x: x['date'])[-1]
LastChange(changes) == SortChanges(changes)[Len(changes)]

\* the stage of the issue on the date
CurrentStage(issue, date) ==
    IF RelevantChanges(issue, date) # <<>>
    THEN determine_stage(LastChange(RelevantChanges(issue, date)).to_status)
    ELSE issue.stage

\* stages if stages else STAGE_ORDER
StagesToShow(stages) == IF stages # <<>> THEN stages ELSE STAGE_ORDER

InColumns(stage, columns) == \E i \in DOMAIN columns : columns[i] = stage

CountedBeforeCreation(issue, date, columns) ==
    InColumns(CurrentStage(issue, date), columns)

\* the issue takes part in the row of the date
Counted(issue, date, columns) ==
    /\ DateOf(issue.created_date) <= date
    /\ InColumns(CurrentStage(issue, date), columns)

\* what the issue adds: Some(n), or None when extract_test_number returns None
CountOf(issue, unit) ==
    IF unit = "Test Number" THEN extract_test_number(issue.job_number) ELSE Some(1)

RECURSIVE StageCountFolding(_, _, _, _, _)
StageCountFolding(rows, date, stage, unit, columns) ==
    IF rows = <<>> THEN 0
    ELSE (IF Counted(Head(rows), date, columns) /\ CurrentStage(Head(rows), date) = stage
          THEN CountOf(Head(rows), unit)[1]
          ELSE IF /\ DateOf(Head(rows).created_date) <= date
                  /\ ~InColumns(CurrentStage(Head(rows), date), columns)
                  /\ stage = columns[1]
                  /\ CountOf(Head(rows), unit) # None
          THEN CountOf(Head(rows), unit)[1]
          ELSE 0)
         + StageCountFolding(Tail(rows), date, stage, unit, columns)

\* stage_counts[stage] after the loop over the rows
RECURSIVE StageCount(_, _, _, _, _)
StageCount(rows, date, stage, unit, columns) ==
    IF rows = <<>> THEN 0
    ELSE (IF Counted(Head(rows), date, columns) /\ CurrentStage(Head(rows), date) = stage
          THEN CountOf(Head(rows), unit)[1]
          ELSE 0)
         + StageCount(Tail(rows), date, stage, unit, columns)

\* stage_counts[current_stage] += None raises TypeError
RaisesTypeError(rows, dates, unit, columns) ==
    \E i \in DOMAIN dates, r \in DOMAIN rows :
        Counted(rows[r], dates[i], columns) /\ CountOf(rows[r], unit) = None

StageCountsCarriedOver(previous, colset) == previous

\* stage_counts = {stage: 0 for stage in stages_to_show}, at the start of
\* every date, whatever stage_counts held after the previous date
StageCountsAtStart(previous, colset) == [stage \in colset |-> 0]

\* the first n rows of cumulative_counts, filled date by date
RECURSIVE CumulativeCounts(_, _, _, _, _)
CumulativeCounts(rows, dates, unit, columns, n) ==
    IF n = 0 THEN <<>>
    ELSE LET colset == {columns[i] : i \in DOMAIN columns}
             before == CumulativeCounts(rows, dates, unit, columns, n - 1)
             previous == IF n = 1 THEN [stage \in colset |-> 0] ELSE before[n - 1]
             stage_counts == StageCountsAtStart(previous, colset)
         IN  Append(before,
                    [stage \in colset |->
                        stage_counts[stage] + StageCount(rows, dates[n], stage, unit, columns)])

aggregate_data_newest_first(rows, dates, unit, stages) ==
    LET columns == StagesToShow(stages)
    IN  IF RaisesTypeError(rows, dates, unit, columns)
        THEN [error |-> "TypeError", index |-> <<>>, columns |-> <<>>, counts |-> <<>>]
        ELSE [error |-> "None",
              index |-> dates,
              columns |-> columns,
              counts |-> CumulativeCounts(rows, [i \in DOMAIN dates |-> dates[Len(dates) + 1 - i]],
                                          unit, columns, Len(dates))]

\* aggregate_data(df, date_range, unit, stages) for a given date range
aggregate_data(rows, dates, unit, stages) ==
    LET columns == StagesToShow(stages)
    IN  IF RaisesTypeError(rows, dates, unit, columns)
        THEN [error |-> "TypeError", index |-> <<>>, columns |-> <<>>, counts |-> <<>>]
        ELSE [error |-> "None",
              index |-> dates,
              columns |-> columns,
              counts |-> CumulativeCounts(rows, dates, unit, columns, Len(dates))]

----------------------------------------------------------------------------
(* The issues the server can hold *)

MaxDay == 2         \* issues are created and changed on days 0..MaxDay
MaxChanges == 2     \* status changes in the history of one issue
MaxIssues == 2      \* issues in a fetched list
MaxTotal == 3       \* issues in the server's result set
MaxPage == 2        \* records the server returns in one page
MaxGetData == 3     \* get_data calls explored
ElapseSeconds == 90 \* seconds that pass in one step of the cache's clock
MaxElapsed == 270   \* last second the cache's clock reaches

S_Open == <<"O", "p", "e", "n">>
S_SamplePrep == <<"S", "a", "m", "p", "l", "e", " ", "P", "r", "e", "p">>
S_TESTING == <<"T", "E", "S", "T", "I", "N", "G">>
S_Reported == <<"R", "e", "p", "o", "r", "t", "e", "d">>
\* the statuses the histories move between: one of a charted stage, Testing
\* in capitals, one of stage Other
Statuses == {S_Open, S_TESTING, S_Reported}

J_Six == <<"A", "B", "C", "D", "1", "2", "3", "4", ".", "5", " ", "(", "6", ")">>
J_Twelve == <<"W", "X", "Y", "Z", "0", "0", "0", "7", ".", "2", " ", "(", "1", "2", ")">>
J_Diff == <<"A", "B", "C", "D", "1", "2", "3", "4", ".", "5", " ", "(", "9", "-", "3", ")">>
J_Dash == <<"A", "B", "C", "D", "1", "2", "3", "4", ".", "5", " ", "(", "a", "-", "b", ")">>
J_Invalid == <<"n", "o", "t", "-", "a", "-", "j", "o", "b", "-", "1", "2", "3">>

L_CIPP == <<"C", "I", "P", "P">>
L_yeg == <<"y", "e", "g">>
L_YUL == <<"Y", "U", "L">>

\* a status changes in the morning of any day or, on the first two days, in
\* the afternoon
ChangeTimes ==
    {d * DayHours + 9 : d \in 0..MaxDay} \cup {d * DayHours + 17 : d \in 0..Min(1, MaxDay)}

\* the status an issue has after the transitions h, starting from s0
StatusAfter(s0, h) == IF h = <<>> THEN s0 ELSE h[Len(h)].to_status

\* the true histories of at most n transitions of an issue created at time
\* created with status s0: later and later times, each to a different status
RECURSIVE TrueHistories(_, _, _)
TrueHistories(n, created, s0) ==
    IF n = 0 THEN {<<>>}
    ELSE LET shorter == TrueHistories(n - 1, created, s0)
             more == {x \in shorter \X ChangeTimes \X Statuses :
                        /\ Len(x[1]) = n - 1
                        /\ x[2] > (IF x[1] = <<>> THEN created ELSE x[1][Len(x[1])].date)
                        /\ x[3] # StatusAfter(s0, x[1])}
         IN  shorter \cup {Append(x[1], [date |-> x[2],
                                         from_status |-> StatusAfter(s0, x[1]),
                                         to_status |-> x[3]]) : x \in more}

Reversed(s) == [i \in DOMAIN s |-> s[Len(s) + 1 - i]]

\* changelog.histories as the API returns it: one history per transition
HistoriesOf(h) ==
    [i \in DOMAIN h |->
        [created |-> h[i].date,
         items |-> <<[field |-> "status", fromString |-> h[i].from_status,
                      toString |-> h[i].to_status]>>]]

\* one issue of the search result
RawIssue(key, summary, labels, created, s0, h, stored) ==
    [key |-> key, summary |-> summary, labels |-> labels, created |-> created,
     status |-> StatusAfter(s0, h), histories |-> HistoriesOf(stored)]

\* an issue created on day 0 with every history within the bounds, stored
\* oldest first or newest first
RichIssues ==
    UNION {UNION {{RawIssue(1, J_Six, <<>>, 9, s0, h, h),
                   RawIssue(1, J_Six, <<>>, 9, s0, h, Reversed(h))} :
                    h \in TrueHistories(MaxChanges, 9, s0)} : s0 \in Statuses}

\* a change to Testing on the day after creation, recorded after an item of another field
NextDayTesting(created, s0) ==
    <<[created |-> created + DayHours,
       items |-> <<[field |-> "assignee", fromString |-> <<>>, toString |-> <<>>],
                   [field |-> "status", fromString |-> s0, toString |-> S_TESTING]>>]>>

\* the kinds of issue that make up the longer lists, created on day d
Variants(key, d) ==
    LET c == d * DayHours + 9
    IN  {RawIssue(key, J_Six, <<L_CIPP>>, c, S_SamplePrep, <<>>, <<>>),
         RawIssue(key, J_Twelve, <<L_CIPP, L_yeg>>, c, S_Reported, <<>>, <<>>),
         RawIssue(key, J_Invalid, <<>>, c, S_Open, <<>>, <<>>),
         RawIssue(key, J_Dash, <<L_YUL>>, c, S_TESTING, <<>>, <<>>),
         [key |-> key, summary |-> J_Diff, labels |-> <<>>, created |-> c,
          status |-> S_TESTING, histories |-> NextDayTesting(c, S_Open)]}

\* the search orders by created DESC: lists of up to MaxIssues issues created
\* on the first or the last day, newest first
IssueLists ==
    UNION {{list \in [1..n -> UNION {Variants(k, d) : k \in 1..n, d \in {0, MaxDay}}] :
                /\ \A i \in 1..n : list[i].key = i
                /\ \A i \in 1..(n - 1) : list[i].created >= list[i + 1].created} :
            n \in 0..MaxIssues}

FetchedLists == IssueLists \cup {<<issue>> : issue \in RichIssues}

----------------------------------------------------------------------------
(* The processing half of get_data: process_issues, the location filter and *)
(* aggregate_data, applied to a fetched list                                *)

Units == {"Job Number", "Test Number"}
StageFilters == {<<>>, <<"Testing">>, <<"Other", "Open">>}
LocationFilters == {<<"Toronto", "Montreal">>}

InitSnapshot ==
    /\ clock = 0
    /\ requests_per_minute = 50
    /\ buffer = SafetyBuffer(50, 10)
    /\ requests = <<>>
    /\ usage = None
    /\ released = <<>>
    /\ slept = <<>>
    /\ \E list \in FetchedLists : cached_issues = Some(list)
    /\ df = None
    /\ df_locations = <<>>
    /\ table = None
    /\ FetchIdle
    /\ FunctionsIdle

\* df = self.process_issues(self._cached_issues)
ProcessIssues ==
    /\ df = None
    /\ cached_issues # None
    /\ df' = Some(process_issues(cached_issues[1]))
    /\ UNCHANGED <<cached_issues, df_locations, table>>
    /\ UNCHANGED <<limiterVars, fetchVars, functionVars>>

\* if locations: df = df[df['location'].isin(locations)]
FilterByLocation ==
    /\ df # None
    /\ df[1].error = "None"
    /\ df_locations = <<>>
    /\ table = None
    /\ \E locs \in LocationFilters :
          /\ df_locations' = locs
          /\ df' = Some([df[1] EXCEPT !.rows = FilterLocation(@, locs)])
    /\ UNCHANGED <<cached_issues, table>>
    /\ UNCHANGED <<limiterVars, fetchVars, functionVars>>

\* date_range = pd.date_range(start, end); aggregate_data(df, date_range, unit, stages)
AggregateData ==
    /\ df # None
    /\ df[1].error = "None"
    /\ table = None
    /\ \E start \in 0..(MaxDay + 1), end \in 0..(MaxDay + 1), unit \in Units, stages \in StageFilters :
          /\ start <= end
          /\ table' = Some([start |-> start, end |-> end, unit |-> unit, stages |-> stages,
                            result |-> aggregate_data(df[1].rows, DateRange(start, end), unit, stages)])
    /\ UNCHANGED <<cached_issues, df, df_locations>>
    /\ UNCHANGED <<limiterVars, fetchVars, functionVars>>

NextSnapshot == ProcessIssues \/ FilterByLocation \/ AggregateData

SpecSnapshot == InitSnapshot /\ [][NextSnapshot]_vars

----------------------------------------------------------------------------
(* Cache and paginated fetch, JiraDataProcessor.get_data and fetch_issues *)

\* timedelta(minutes=3), in seconds
CACHE_DURATION == 180

max_results == 2000

\* the k-th issue of the server's result set, newest first
ServerIssue(k) ==
    LET c == (MaxTotal - k) * DayHours + 9
    IN  CASE k = 1 -> RawIssue(k, J_Invalid, <<>>, c, S_Open, <<>>, <<>>)
          [] k = 2 -> [key |-> k, summary |-> J_Diff, labels |-> <<>>, created |-> c,
                       status |-> S_TESTING, histories |-> NextDayTesting(c, S_Open)]
          [] k = 3 -> RawIssue(k, J_Twelve, <<L_CIPP, L_yeg>>, c, S_Reported, <<>>, <<>>)
          [] OTHER -> RawIssue(k, J_Six, <<L_CIPP>>, c, S_SamplePrep, <<>>, <<>>)

ServerLists == {[k \in 1..n |-> ServerIssue(k)] : n \in 0..MaxTotal}

\* Python values of the arguments that get_data receives with more than one
\* type: None, a bool, a str, a list
PyNone == [none |-> TRUE]
PyBool(b) == [bool |-> b]
PyStr(text) == [str |-> text]
PyList(items) == [list |-> items]

IsStr(v) == "str" \in DOMAIN v
IsList(v) == "list" \in DOMAIN v

\* bool(v), as an if statement takes it
Truthy(v) ==
    CASE "none" \in DOMAIN v -> FALSE
      [] "bool" \in DOMAIN v -> v.bool
      [] "str" \in DOMAIN v -> v.str # ""
      [] "list" \in DOMAIN v -> v.list # <<>>

\* the arguments after project_key of get_data calls that name their parameters
Queries ==
    {[project_key |-> "MTEST", start_date |-> 0, end_date |-> MaxTotal, stages |-> <<>>,
      locations |-> PyNone, unit |-> PyStr("Job Number")],
     [project_key |-> "OTHER", start_date |-> 1, end_date |-> 2, stages |-> <<"Testing">>,
      locations |-> PyList(<<"Toronto", "Montreal">>), unit |-> PyStr("Test Number")]}

\* what the filters and the date fields of the window show when update_data runs
Selections ==
    {[stage |-> "All", location |-> "All", unit |-> "Job Number",
      start_date |-> 0, end_date |-> MaxTotal],
     [stage |-> "Testing", location |-> "Toronto", unit |-> "Test Number",
      start_date |-> 1, end_date |-> 2]}

\* MainWindow.update_data: the arguments of its get_data call, in the order
\* in which it passes them
update_data(selection) ==
    LET stages == IF selection.stage # "All" THEN <<selection.stage>> ELSE <<>>
        locations == IF selection.location # "All"
                     THEN PyList(<<selection.location>>) ELSE PyNone
        unit == PyStr(selection.unit)
        view_type == PyStr("Cumulative")
    IN  <<PyStr("MTEST"), selection.start_date, selection.end_date, stages, view_type,
          locations, unit>>

\* positional arguments bound to the parameters of get_data: project_key,
\* start_date, end_date, stages, locations, unit, force_refresh
BindGetData(caller, args) ==
    [caller |-> caller,
     query |-> [project_key |-> args[1].str, start_date |-> args[2], end_date |-> args[3],
                stages |-> args[4], locations |-> args[5], unit |-> args[6]],
     force_refresh |-> args[7]]

\* the get_data calls: the ones that name their parameters, with and without
\* force_refresh, and the ones update_data makes
GetDataCalls ==
    {[caller |-> "direct", query |-> query, force_refresh |-> PyBool(force)] :
        query \in Queries, force \in BOOLEAN}
    \cup {BindGetData("update_data", update_data(selection)) : selection \in Selections}

\* the arguments after project_key of all these calls
BoundQueries == {c.query : c \in GetDataCalls}

\* the condition under which get_data fetches
MustFetchIgnoringForce(cached, last, current_time, force_refresh) ==
    IF cached = None \/ last = None
    THEN TRUE
    ELSE current_time - last[1] > CACHE_DURATION

MustFetch(cached, last, current_time, force_refresh) ==
    IF cached = None \/ last = None
    THEN TRUE
    ELSE current_time - last[1] > CACHE_DURATION \/ force_refresh

\* get_data from process_issues on: what it returns, or the exception it raises
GetDataResult(fetched, query) ==
    LET processed == process_issues(fetched)
        rows == IF Truthy(query.locations)
                THEN FilterLocation(processed.rows, query.locations.list)
                ELSE processed.rows
        \* unit == 'Test Number' is False for a unit that is not a str
        unit == IF IsStr(query.unit) THEN query.unit.str ELSE ""
        aggregated == aggregate_data(rows, DateRange(query.start_date, query.end_date),
                                     unit, query.stages)
    IN  IF processed.error # "None"
        THEN [error |-> processed.error, df |-> <<>>, aggregated_data |-> <<>>]
        \* Series.isin raises TypeError for a value that is not list-like
        ELSE IF Truthy(query.locations) /\ ~IsList(query.locations)
        THEN [error |-> "TypeError", df |-> <<>>, aggregated_data |-> <<>>]
        ELSE IF aggregated.error # "None"
        THEN [error |-> aggregated.error, df |-> <<>>, aggregated_data |-> <<>>]
        ELSE [error |-> "None", df |-> rows, aggregated_data |-> aggregated]

\* the same for every list a fetch can return and every query, computed once
GetDataResults ==
    [fetched \in ServerLists, query \in BoundQueries |-> GetDataResult(fetched, query)]

Init ==
    /\ clock = 0
    /\ requests_per_minute = 50
    /\ buffer = SafetyBuffer(50, 10)
    /\ requests = <<>>
    /\ usage = None
    /\ released = <<>>
    /\ slept = <<>>
    /\ cached_issues = None
    /\ df = None
    /\ df_locations = <<>>
    /\ table = None
    /\ JIRA_URL \in BOOLEAN
    /\ server_issues \in ServerLists
    /\ last_fetch_time = None
    /\ pc = "idle"
    /\ call = None
    /\ all_issues = <<>>
    /\ start_at = 0
    /\ pages = <<>>
    /\ result = None
    /\ call_count = 0
    /\ fetch_count = 0
    /\ wait_calls = 0
    /\ FunctionsIdle

\* the record of a get_data call made now
CallOf(c, fetched) ==
    Some([caller |-> c.caller, query |-> c.query, force_refresh |-> Truthy(c.force_refresh),
          current_time |-> clock,
          had_cache |-> cached_issues # None, previous_fetch |-> last_fetch_time,
          fetched |-> fetched])

\* get_data when the cache is fresh: no fetch, the cached list is processed
GetDataCached ==
    /\ pc = "idle"
    /\ call_count < MaxGetData
    /\ \E c \in GetDataCalls :
          /\ ~MustFetch(cached_issues, last_fetch_time, clock, Truthy(c.force_refresh))
          /\ call' = CallOf(c, FALSE)
          /\ result' = Some(GetDataResults[cached_issues[1], c.query])
    /\ call_count' = call_count + 1
    /\ UNCHANGED <<limiterVars, cached_issues, snapshotVars, functionVars>>
    /\ UNCHANGED <<JIRA_URL, server_issues, last_fetch_time, pc, all_issues, start_at, pages,
                   fetch_count, wait_calls>>

GetDataUnconfiguredGated ==
    /\ pc = "idle"
    /\ call_count < MaxGetData
    /\ ~JIRA_URL
    /\ \E c \in GetDataCalls :
          /\ MustFetch(cached_issues, last_fetch_time, clock, Truthy(c.force_refresh))
          /\ call' = CallOf(c, TRUE)
    /\ clock' = clock + SleepTime(requests, clock, requests_per_minute, buffer)
    /\ requests' = RecordedRequests(requests, clock)
    /\ wait_calls' = wait_calls + 1
    /\ result' = Some([error |-> "ValueError", df |-> <<>>, aggregated_data |-> <<>>])
    /\ call_count' = call_count + 1
    /\ fetch_count' = fetch_count + 1
    /\ UNCHANGED <<requests_per_minute, buffer, usage, released, slept>>
    /\ UNCHANGED <<cached_issues, snapshotVars, functionVars>>
    /\ UNCHANGED <<JIRA_URL, server_issues, last_fetch_time, pc, all_issues, start_at, pages>>

\* get_data when it must fetch and JIRA_URL is unset: fetch_issues raises
\* ValueError before its loop and get_data passes it on
GetDataUnconfigured ==
    /\ pc = "idle"
    /\ call_count < MaxGetData
    /\ ~JIRA_URL
    /\ \E c \in GetDataCalls :
          /\ MustFetch(cached_issues, last_fetch_time, clock, Truthy(c.force_refresh))
          /\ call' = CallOf(c, TRUE)
    /\ result' = Some([error |-> "ValueError", df |-> <<>>, aggregated_data |-> <<>>])
    /\ call_count' = call_count + 1
    /\ fetch_count' = fetch_count + 1
    /\ UNCHANGED <<limiterVars, cached_issues, snapshotVars, functionVars>>
    /\ UNCHANGED <<JIRA_URL, server_issues, last_fetch_time, pc, all_issues, start_at, pages,
                   wait_calls>>

GetDataFetchAfterTruncation ==
    /\ pc = "idle"
    /\ call_count < MaxGetData
    /\ JIRA_URL
    /\ \E c \in GetDataCalls :
          /\ \/ MustFetch(cached_issues, last_fetch_time, clock, Truthy(c.force_refresh))
             \/ (pages # <<>> /\ pages[Len(pages)].error)
          /\ call' = CallOf(c, TRUE)
    /\ pc' = "fetching"
    /\ all_issues' = <<>>
    /\ start_at' = 0
    /\ pages' = <<>>
    /\ wait_calls' = 0
    /\ result' = None
    /\ call_count' = call_count + 1
    /\ fetch_count' = fetch_count + 1
    /\ UNCHANGED <<limiterVars, cached_issues, snapshotVars, functionVars>>
    /\ UNCHANGED <<JIRA_URL, server_issues, last_fetch_time>>

\* get_data when it must fetch: fetch_issues is entered, up to its loop
GetDataFetch ==
    /\ pc = "idle"
    /\ call_count < MaxGetData
    /\ JIRA_URL
    /\ \E c \in GetDataCalls :
          /\ MustFetch(cached_issues, last_fetch_time, clock, Truthy(c.force_refresh))
          /\ call' = CallOf(c, TRUE)
    /\ pc' = "fetching"
    /\ all_issues' = <<>>
    /\ start_at' = 0
    /\ pages' = <<>>
    /\ wait_calls' = 0
    /\ result' = None
    /\ call_count' = call_count + 1
    /\ fetch_count' = fetch_count + 1
    /\ UNCHANGED <<limiterVars, cached_issues, snapshotVars, functionVars>>
    /\ UNCHANGED <<JIRA_URL, server_issues, last_fetch_time>>

GateRequestSkipped ==
    /\ UNCHANGED <<clock, requests, wait_calls>>
    /\ UNCHANGED <<requests_per_minute, buffer, usage, released, slept>>

\* one iteration of the loop starts with self.rate_limiter.wait_if_needed()
GateRequest ==
    /\ clock' = clock + SleepTime(requests, clock, requests_per_minute, buffer)
    /\ requests' = RecordedRequests(requests, clock)
    /\ wait_calls' = wait_calls + 1
    /\ UNCHANGED <<requests_per_minute, buffer, usage, released, slept>>

\* the pages the server can answer the request at offset with: up to maxResults
\* and up to its own page limit of the records from the offset on
PageSizes(offset) ==
    0..(IF offset >= Len(server_issues) THEN 0
        ELSE Min(Min(max_results, MaxPage), Len(server_issues) - offset))

PageAt(offset, size) == SubSeq(server_issues, offset + 1, offset + size)

\* data['total']: the size of the result set, or one less when a record has
\* left it since
ReportedTotals == {Len(server_issues)} \cup {n \in {Len(server_issues) - 1} : n >= 0}

\* the loop stops after this page
LastPageStrict(issues, accumulated, total) == issues = <<>> \/ accumulated > total

LastPage(issues, accumulated, total) == issues = <<>> \/ accumulated >= total

ReturnToGetDataUntimed(fetched) ==
    /\ cached_issues' = Some(fetched)
    /\ last_fetch_time' = last_fetch_time
    /\ result' = Some(GetDataResults[fetched, call[1].query])
    /\ pc' = "idle"

\* fetch_issues returns fetched to get_data, which caches and processes it
ReturnToGetData(fetched) ==
    /\ cached_issues' = Some(fetched)
    /\ last_fetch_time' = Some(call[1].current_time)
    /\ result' = Some(GetDataResults[fetched, call[1].query])
    /\ pc' = "idle"

FetchPageErrorRaises ==
    /\ pc = "fetching"
    /\ GateRequest
    /\ pages' = Append(pages, [error |-> TRUE, startAt |-> start_at, issues |-> <<>>, total |-> 0])
    /\ result' = Some([error |-> "RequestException", df |-> <<>>, aggregated_data |-> <<>>])
    /\ pc' = "idle"
    /\ UNCHANGED <<all_issues, start_at, cached_issues, last_fetch_time>>
    /\ UNCHANGED <<snapshotVars, functionVars, JIRA_URL, server_issues, call, call_count, fetch_count>>

\* a loop iteration whose request fails: the exception is caught, the loop ends
FetchPageError ==
    /\ pc = "fetching"
    /\ GateRequest
    /\ pages' = Append(pages, [error |-> TRUE, startAt |-> start_at, issues |-> <<>>, total |-> 0])
    /\ ReturnToGetData(all_issues)
    /\ UNCHANGED <<all_issues, start_at>>
    /\ UNCHANGED <<snapshotVars, functionVars, JIRA_URL, server_issues, call, call_count, fetch_count>>

FetchPageLastGoesOn ==
    /\ pc = "fetching"
    /\ GateRequest
    /\ \E size \in PageSizes(start_at), total \in ReportedTotals :
          LET issues == PageAt(start_at, size)
          IN  /\ LastPage(issues, Len(all_issues) + size, total)
              /\ pages' = Append(pages, [error |-> FALSE, startAt |-> start_at,
                                         issues |-> issues, total |-> total])
              /\ all_issues' = all_issues \o issues
              /\ start_at' = start_at + Len(issues)
    /\ UNCHANGED <<cached_issues, last_fetch_time, pc, result>>
    /\ UNCHANGED <<snapshotVars, functionVars, JIRA_URL, server_issues, call, call_count, fetch_count>>

\* a loop iteration that gets a page and ends the loop
FetchPageLast ==
    /\ pc = "fetching"
    /\ GateRequest
    /\ \E size \in PageSizes(start_at), total \in ReportedTotals :
          LET issues == PageAt(start_at, size)
          IN  /\ LastPage(issues, Len(all_issues) + size, total)
              /\ pages' = Append(pages, [error |-> FALSE, startAt |-> start_at,
                                         issues |-> issues, total |-> total])
              /\ all_issues' = all_issues \o issues
              /\ start_at' = start_at + Len(issues)
              /\ ReturnToGetData(all_issues \o issues)
    /\ UNCHANGED <<snapshotVars, functionVars, JIRA_URL, server_issues, call, call_count, fetch_count>>

FetchPageMoreFixedStride ==
    /\ pc = "fetching"
    /\ GateRequest
    /\ \E size \in PageSizes(start_at), total \in ReportedTotals :
          LET issues == PageAt(start_at, size)
          IN  /\ ~LastPage(issues, Len(all_issues) + size, total)
              /\ pages' = Append(pages, [error |-> FALSE, startAt |-> start_at,
                                         issues |-> issues, total |-> total])
              /\ all_issues' = all_issues \o issues
              /\ start_at' = start_at + max_results
    /\ UNCHANGED <<cached_issues, snapshotVars, functionVars>>
    /\ UNCHANGED <<JIRA_URL, server_issues, last_fetch_time, pc, call, result, call_count,
                   fetch_count>>

\* a loop iteration that gets a page and goes round again
FetchPageMore ==
    /\ pc = "fetching"
    /\ GateRequest
    /\ \E size \in PageSizes(start_at), total \in ReportedTotals :
          LET issues == PageAt(start_at, size)
          IN  /\ ~LastPage(issues, Len(all_issues) + size, total)
              /\ pages' = Append(pages, [error |-> FALSE, startAt |-> start_at,
                                         issues |-> issues, total |-> total])
              /\ all_issues' = all_issues \o issues
              /\ start_at' = start_at + Len(issues)
    /\ UNCHANGED <<cached_issues, snapshotVars, functionVars>>
    /\ UNCHANGED <<JIRA_URL, server_issues, last_fetch_time, pc, call, result, call_count,
                   fetch_count>>

\* time passes between two get_data calls
Elapse ==
    /\ pc = "idle"
    /\ clock + ElapseSeconds <= MaxElapsed
    /\ clock' = clock + ElapseSeconds
    /\ UNCHANGED <<requests_per_minute, buffer, requests, usage, released, slept>>
    /\ UNCHANGED <<cached_issues, snapshotVars, fetchVars, functionVars>>

Next ==
    \/ GetDataCached
    \/ GetDataUnconfigured
    \/ GetDataFetch
    \/ FetchPageError
    \/ FetchPageLast
    \/ FetchPageMore
    \/ Elapse

Spec == Init /\ [][Next]_vars

\* one iteration of the loop of fetch_issues, whatever its outcome
FetchPage == FetchPageError \/ FetchPageLast \/ FetchPageMore

\* The loop of fetch_issues runs in the thread that called get_data: once
\* entered, its next iteration is carried out, the sleep of the limiter is
\* finite and the request comes back with a page or an exception.
SpecFetchLive == Init /\ [][Next]_vars /\ WF_vars(FetchPage)

----------------------------------------------------------------------------
(* The pure functions called on their own: determine_stage,                 *)
(* extract_test_number and the job-number validity check of process_issues  *)

MaxCasePositions == 3   \* leading characters of a status whose case is varied

\* status names in lower case: the ones the classifier knows, the ones of the
\* workflow it does not chart, and strings that are no status at all
StatusWords ==
    {<<"o", "p", "e", "n">>, <<"t", "e", "s", "t", "i", "n", "g">>,
     <<"s", "a", "m", "p", "l", "e", " ", "p", "r", "e", "p">>,
     <<"s", "a", "m", "p", "l", "e", " ", "p", "r", "e", "p", "a", "r", "a", "t", "i", "o", "n">>,
     <<"r", "e", "p", "o", "r", "t">>, <<"r", "e", "p", "o", "r", "t", "e", "d">>,
     <<"q", "u", "o", "t", "a", "t", "i", "o", "n">>,
     <<"i", "n", " ", "p", "r", "o", "g", "r", "e", "s", "s">>,
     <<"o", "n", " ", "h", "o", "l", "d">>, <<"o", "p", "e", "n", "e", "d">>,
     <<" ", "o", "p", "e", "n">>, <<"o", "p", "e", "n", " ">>, <<>>,
     <<"s", "a", "m", "p", "l", "e", " ", " ", "p", "r", "e", "p">>, <<"t", "e", "s", "t">>,
     <<"r", "e", "p", "o", "r", "t", "s">>, <<"d", "o", "n", "e">>}

\* a word with some of its leading characters in upper case, or all of them
CaseVariants(w) ==
    {[i \in DOMAIN w |-> IF i \in S THEN UpperChar(w[i]) ELSE w[i]] :
        S \in SUBSET (1..Min(Len(w), MaxCasePositions))} \cup {Upper(w)}

StatusInputs == UNION {CaseVariants(w) : w \in StatusWords}

\* beginnings of summaries: well-formed job numbers and near misses
JobHeads ==
    {<<"A", "B", "C", "D", "1", "2", "3", "4", ".", "5", " ">>,
     <<"W", "X", "Y", "Z", "0", "0", "0", "7", ".", "2", " ">>,
     <<"A", "B", "C", "1", "2", "3", "4", ".", "5", " ">>,
     <<"A", "B", "C", "D", "E", "1", "2", "3", "4", ".", "5", " ">>,
     <<"a", "b", "c", "d", "1", "2", "3", "4", ".", "5", " ">>,
     <<"A", "b", "C", "D", "1", "2", "3", "4", ".", "5", " ">>,
     <<"A", "B", "C", "D", "1", "2", "3", ".", "5", " ">>,
     <<"A", "B", "C", "D", "1", "2", "3", "4", "5", ".", "5", " ">>,
     <<"A", "B", "C", "D", "1", "2", "3", "4", ",", "5", " ">>,
     <<"A", "B", "C", "D", "1", "2", "3", "4", ".", "5", "5", " ">>,
     <<"A", "B", "C", "D", "1", "2", "3", "4", ".", " ">>,
     <<"A", "B", "C", "D", "1", "2", "3", "4", ".", "5">>,
     <<"A", "B", "C", "D", "1", "2", "3", "4", ".", "5", "\t">>,
     <<"A", "B", "C", "D", "1", "2", "3", "4", ".", "5", " ", " ">>,
     <<" ", "A", "B", "C", "D", "1", "2", "3", "4", ".", "5", " ">>,
     <<"A", "B", "C", "D", "1", "2", "3", "4", ".", "5", " ", "x">>,
     <<"1", "B", "C", "D", "1", "2", "3", "4", ".", "5", " ">>,
     <<"A", "B", "C", "D", "1", "2", "3", "4", ".", "X", " ">>}

\* what follows the job number
JobSuffixes ==
    {<<"(", "6", ")">>, <<"(", ")">>, <<"(", "1", "2">>, <<"6", ")">>,
     <<"(", "6", ")", " ", "e", "x", "t", "r", "a">>, <<"[", "6", "]">>, <<>>,
     <<"(", "(", "6", ")">>, <<"(", "1", "2", ")">>}

\* what stands between the first pair of parentheses
ParensContents ==
    {<<"6">>, <<"9", "-", "3">>, <<"3", "+", "3">>,
     <<"4", "1", "-", "1", "1", " ", "=", " ", "3", "0">>,
     <<"M", "a", "y", " ", "2", "0", "2", "4">>, <<"4">>, <<"a", "b", "c">>,
     <<"r", "e", "-", "t", "e", "s", "t">>, <<"5", "-">>, <<"-", "5">>,
     <<"3", " ", "+", " ", "4", " ", "=", " ", "7">>, <<"1", "+", "2", "+", "3">>,
     <<"3", "0", " ", "=", " ", "4", "1", "-", "1", "1">>,
     <<"M", "a", "r", " ", "3", "-", "1">>, <<"J", "u", "n", "e", " ", "2", "+", "2">>,
     <<"1", "2", " ", "t", "e", "s", "t", "s">>, <<"x", "7", "y", "8">>, <<"3", "-", "9">>,
     <<"1", "0", "-", "2", "-", "3">>, <<"0">>, <<"2", " ", "+", " ", "x">>,
     <<"1", " ", "=", " ", "2">>}

\* what follows the first pair of parentheses
SummaryTails ==
    {<<>>, <<" ", "-", "-", ">", " ", "(", "9", ")">>,
     <<" ", "-", "-", ">", " ", "x", " ", "(", "9", ")">>,
     <<" ", "-", "-", ">", " ", "(", "x", ")", " ", "(", "7", ")">>, <<" ", "(", "2", ")">>,
     <<" ", "-", "-", ">", " ", "5">>}

\* summaries without a parenthesized content, or with nothing else
PlainSummaries ==
    {<<"n", "o", "t", "-", "a", "-", "j", "o", "b", "-", "1", "2", "3">>,
     <<"A", "B", "C", "D", "1", "2", "3", "4", ".", "5">>, <<"-", "-", ">", " ", "5">>,
     <<"(">>, <<"(", ")">>, <<"(", ")", " ", "(", "3", ")">>,
     <<"-", "-", ">", " ", "(", "8", ")">>, <<>>}

SummaryInputs ==
    {h \o x : h \in JobHeads, x \in JobSuffixes}
        \cup {h \o <<"(">> \o c \o <<")">> \o t :
                h \in {<<>>, <<"A", "B", "C", "D", "1", "2", "3", "4", ".", "5", " ">>},
                c \in ParensContents, t \in SummaryTails}
        \cup PlainSummaries

InitFunctions ==
    /\ clock = 0
    /\ requests_per_minute = 50
    /\ buffer = SafetyBuffer(50, 10)
    /\ requests = <<>>
    /\ usage = None
    /\ released = <<>>
    /\ slept = <<>>
    /\ cached_issues = None
    /\ df = None
    /\ df_locations = <<>>
    /\ table = None
    /\ FetchIdle
    /\ ret = None
    /\ \/ fn = "determine_stage" /\ arg \in StatusInputs
       \/ fn = "extract_test_number" /\ arg \in SummaryInputs
       \/ fn = "is_valid_job_number" /\ arg \in SummaryInputs

\* self.determine_stage(status)
DetermineStage ==
    /\ fn = "determine_stage"
    /\ ret = None
    /\ ret' = Some(determine_stage(arg))
    /\ UNCHANGED <<fn, arg>>
    /\ UNCHANGED <<limiterVars, cached_issues, snapshotVars, fetchVars>>

\* self.extract_test_number(job_number)
ExtractTestNumber ==
    /\ fn = "extract_test_number"
    /\ ret = None
    /\ ret' = Some(extract_test_number(arg))
    /\ UNCHANGED <<fn, arg>>
    /\ UNCHANGED <<limiterVars, cached_issues, snapshotVars, fetchVars>>

\* the validity check process_issues makes on the summary of an issue
IsValidJobNumber ==
    /\ fn = "is_valid_job_number"
    /\ ret = None
    /\ ret' = Some(ValidJobNumber(arg))
    /\ UNCHANGED <<fn, arg>>
    /\ UNCHANGED <<limiterVars, cached_issues, snapshotVars, fetchVars>>

NextFunctions ==
    \/ DetermineStage
    \/ ExtractTestNumber
    \/ IsValidJobNumber

SpecFunctions == InitFunctions /\ [][NextFunctions]_vars

----------------------------------------------------------------------------
(* Claims about the snapshot aggregation *)

\* aggregate_data has returned a table
HasTable == table # None /\ table[1].result.error = "None"

\* the table was computed from all processed issues, each counting 1, in the
\* four default stage columns
CountsAllIssues ==
    /\ HasTable
    /\ table[1].unit = "Job Number"
    /\ df_locations = <<>>

\* the status changes of a fetched issue
ChangesOf(issue) == StatusChanges(issue.histories)

\* the sum of the counts of row i of the table over its columns
RECURSIVE SumOver(_, _)
SumOver(row, columns) ==
    IF columns = <<>> THEN 0 ELSE row[Head(columns)] + SumOver(row, Tail(columns))

RowSum(i) == SumOver(table[1].result.counts[i], table[1].result.columns)

\* row i of the table counts exactly one issue, under stage, or nothing when
\* stage is not a column
RowIsOneIssueUnder(i, stage) ==
    \A c \in DOMAIN table[1].result.columns :
        table[1].result.counts[i][table[1].result.columns[c]]
            = (IF table[1].result.columns[c] = stage THEN 1 ELSE 0)

\* the fetched list is one valid issue whose only status change happens on a
\* day after its creation and goes from a non-Testing to a Testing status
OneChangeToTesting ==
    /\ Len(cached_issues[1]) = 1
    /\ ValidJobNumber(cached_issues[1][1].summary)
    /\ Len(ChangesOf(cached_issues[1][1])) = 1
    /\ DateOf(ChangesOf(cached_issues[1][1])[1].date) > DateOf(cached_issues[1][1].created)
    /\ determine_stage(ChangesOf(cached_issues[1][1])[1].from_status) # "Testing"
    /\ determine_stage(ChangesOf(cached_issues[1][1])[1].to_status) = "Testing"

\* C1: an issue created on day C whose only status change happens on a later
\* day T, from a non-Testing to a Testing status, is counted under the stage
\* of the status it had before the change in every row D with C <= D < T and
\* under Testing in every row D >= T.
C1_CreationStageBeforeChange ==
    (CountsAllIssues /\ OneChangeToTesting) =>
        \A i \in DOMAIN table[1].result.index :
            LET D == table[1].result.index[i]
                change == ChangesOf(cached_issues[1][1])[1]
            IN  /\ (DateOf(cached_issues[1][1].created) <= D /\ D < DateOf(change.date))
                       => RowIsOneIssueUnder(i, determine_stage(change.from_status))
                /\ D >= DateOf(change.date) => RowIsOneIssueUnder(i, "Testing")

\* the status changes of the issue that qualify on day D
Qualifying(issue, D) == {k \in DOMAIN ChangesOf(issue) : DateOf(ChangesOf(issue)[k].date) <= D}

\* C2: for an issue and a date D with at least one status change dated on or
\* before D, the issue is counted in row D under determine_stage(to_status)
\* of the qualifying change with the greatest changed_at, in whatever order
\* the changes are stored; changes dated after D play no part.
C2_LastQualifyingChange ==
    (HasTable /\ table[1].unit = "Job Number" /\ df_locations = <<>>
        /\ Len(cached_issues[1]) = 1 /\ ValidJobNumber(cached_issues[1][1].summary)) =>
        \A i \in DOMAIN table[1].result.index :
            LET D == table[1].result.index[i]
                issue == cached_issues[1][1]
            IN  Qualifying(issue, D) # {} =>
                    \E k \in Qualifying(issue, D) :
                        /\ \A m \in Qualifying(issue, D) :
                              ChangesOf(issue)[m].date <= ChangesOf(issue)[k].date
                        /\ RowIsOneIssueUnder(i, determine_stage(ChangesOf(issue)[k].to_status))

\* C2 witness: two status changes stored newest first, a row whose date
\* falls between them and a row after both, in a table with all four columns
C2_Witness ==
    /\ HasTable /\ table[1].unit = "Job Number" /\ table[1].stages = <<>>
    /\ Len(cached_issues[1]) = 1
    /\ Len(ChangesOf(cached_issues[1][1])) = 2
    /\ ChangesOf(cached_issues[1][1])[1].date > ChangesOf(cached_issues[1][1])[2].date
    /\ determine_stage(ChangesOf(cached_issues[1][1])[1].to_status) = "Open"
    /\ determine_stage(ChangesOf(cached_issues[1][1])[2].to_status) = "Testing"
    /\ \E i, j \in DOMAIN table[1].result.index :
          /\ Cardinality(Qualifying(cached_issues[1][1], table[1].result.index[i])) = 1
          /\ table[1].result.counts[i]["Testing"] = 1
          /\ Cardinality(Qualifying(cached_issues[1][1], table[1].result.index[j])) = 2
          /\ table[1].result.counts[j]["Open"] = 1

\* the fetched issues created on or before day D
CreatedBy(D) == {k \in DOMAIN cached_issues[1] : DateOf(cached_issues[1][k].created) <= D}

\* C3: with whole-issue counts and no stage filter the counts of
\* row D add up to the number of fetched issues created on or before D.
C3_RowSumIsIssueCount ==
    (CountsAllIssues /\ table[1].stages = <<>>) =>
        \A i \in DOMAIN table[1].result.index :
            RowSum(i) = Cardinality(CreatedBy(table[1].result.index[i]))

\* C4: the table has exactly one row per calendar day of the inclusive range
\* start..end, in ascending order without gaps, and every day on which no
\* processed issue exists yet carries a row of zeros.
C4_OneRowPerDay ==
    HasTable =>
        /\ Len(table[1].result.index) = table[1].end - table[1].start + 1
        /\ DOMAIN table[1].result.counts = DOMAIN table[1].result.index
        /\ \A i \in DOMAIN table[1].result.index :
              /\ table[1].result.index[i] = table[1].start + i - 1
              /\ (\A r \in DOMAIN df[1].rows :
                      DateOf(df[1].rows[r].created_date) > table[1].result.index[i])
                    => \A c \in DOMAIN table[1].result.columns :
                          table[1].result.counts[i][table[1].result.columns[c]] = 0

\* C4 witness: a range of several days that starts before the first issue
\* exists: its first row is all zero, its last row is not
C4_Witness ==
    /\ HasTable
    /\ df[1].rows # <<>>
    /\ Len(table[1].result.index) >= 3
    /\ table[1].result.index[Len(table[1].result.index)] = table[1].end
    /\ \A r \in DOMAIN df[1].rows : DateOf(df[1].rows[r].created_date) > table[1].start
    /\ RowSum(1) = 0
    /\ RowSum(Len(table[1].result.index)) > 0

----------------------------------------------------------------------------
(* Claims about the rate limiter *)

\* the recorded requests that lie within the 60 seconds before the clock
InWindow == {i \in DOMAIN requests : requests[i] > clock - Minute}

\* C6: with the default parameters the quota is 50 and the buffer 5; a
\* wait_if_needed call that finds fewer than quota - buffer recorded requests
\* in the preceding 60 seconds returns without sleeping, and a call that
\* finds quota - buffer or more of them blocks until the oldest of them is
\* exactly 60 seconds old.
C6_BlocksAtThreshold ==
    /\ [](requests_per_minute = 50 => buffer = 5)
    /\ [][Len(released') = Len(released) + 1 =>
            IF Cardinality(InWindow) < requests_per_minute - buffer
            THEN clock' = clock /\ slept'[Len(slept')] = 0
            ELSE \E i \in InWindow :
                    /\ \A j \in InWindow : requests[i] <= requests[j]
                    /\ clock' = requests[i] + Minute
                    /\ clock' > clock
                    /\ slept'[Len(slept')] = clock' - clock]_vars

\* C6 witness: the 46th call of a burst against the default limiter blocked
\* for the whole minute, the 45 calls before it did not sleep.
C6_Witness ==
    /\ requests_per_minute = 50
    /\ Len(slept) >= 46
    /\ slept[46] = Minute
    /\ \A i \in 1..45 : slept[i] = 0

\* C7: the number of calls that return within any rolling 60-second window
\* (t - 60, t] never exceeds requests_per_minute - buffer.
C7_ReleasesWithinQuota ==
    \A i \in DOMAIN released :
        Cardinality({j \in DOMAIN released :
                        released[j] > released[i] - Minute /\ released[j] <= released[i]})
            <= requests_per_minute - buffer

\* C8: get_current_usage never reports more current requests than the limit,
\* so the remaining count it reports is limit - current_requests >= 0.
C8_UsageWithinLimit ==
    usage # None =>
        /\ usage[1].current_requests <= usage[1].limit
        /\ usage[1].remaining = usage[1].limit - usage[1].current_requests
        /\ usage[1].remaining >= 0

\* C8 witness: after a call that had to block, the limiter holds more
\* timestamps than the limit and the usage report still shows the limit.
C8_Witness ==
    /\ usage # None
    /\ Len(requests) > requests_per_minute
    /\ usage[1].current_requests = usage[1].limit
    /\ usage[1].remaining = 0

----------------------------------------------------------------------------
(* Claims about the cache and the paginated fetch *)

\* seconds between the previous fetch and now; only asked when there was one
ElapsedSinceFetch == clock - last_fetch_time[1]

Stale == IF cached_issues = None THEN TRUE ELSE ElapsedSinceFetch > 3 * Minute

\* C5: a get_data call invokes fetch_issues if and only if nothing is cached,
\* or more than three minutes have passed since the last fetch, or
\* force_refresh is set, whatever the project key, dates and filters are; a
\* call that does not fetch leaves the cached list and its time alone
C5_FetchesExactlyWhenStale ==
    [][call_count' = call_count + 1 =>
          /\ (fetch_count' = fetch_count + 1) <=> (Stale \/ call'[1].force_refresh)
          /\ fetch_count' \in {fetch_count, fetch_count + 1}
          /\ call'[1].fetched <=> (fetch_count' = fetch_count + 1)
          /\ fetch_count' = fetch_count =>
                /\ cached_issues' = cached_issues
                /\ last_fetch_time' = last_fetch_time
                /\ requests' = requests]_vars

\* three calls without force_refresh: the first two made one fetch, the third
\* comes after the three minutes and makes the second
C5_Witness ==
    /\ call_count = 3
    /\ fetch_count = 2
    /\ call # None
    /\ call[1].fetched
    /\ ~call[1].force_refresh
    /\ call[1].had_cache
    /\ call[1].current_time - call[1].previous_fetch[1] > 3 * Minute

LastOf(ps) == ps[Len(ps)]

\* C9: after a page that came back, fetch_issues stops if and only if the
\* page has no records or the accumulated records have reached the total the
\* page reports; otherwise the next request starts at the offset after the
\* records so far; once stopped, no request is issued until the next fetch
C9_StopsOnEmptyPageOrTotal ==
    [][/\ (Len(pages') = Len(pages) + 1 /\ ~LastOf(pages').error) =>
            /\ LastOf(pages').startAt = Len(all_issues)
            /\ IF LastOf(pages').issues = <<>> \/ Len(all_issues') >= LastOf(pages').total
               THEN pc' = "idle"
               ELSE pc' = "fetching" /\ start_at' = Len(all_issues')
       /\ (pc = "idle" /\ pc' = "idle") => (requests' = requests /\ pages' = pages)]_vars

\* a fetch of two pages or more that stopped on the reported total
C9_Witness ==
    /\ pc = "idle"
    /\ Len(pages) >= 2
    /\ ~LastOf(pages).error
    /\ LastOf(pages).issues # <<>>
    /\ Len(all_issues) >= LastOf(pages).total

RECURSIVE RecordsOfPages(_, _)
RecordsOfPages(ps, n) ==
    IF n = 0 THEN <<>> ELSE RecordsOfPages(ps, n - 1) \o ps[n].issues

\* C10: when the request for page k fails, the fetch is over (the failed page
\* is the last one requested and no earlier one failed), and fetch_issues has
\* returned to get_data the records of pages 1..k-1 in order: that list is
\* what get_data cached and, in the call that fetched, processed
C10_ErrorReturnsAccumulated ==
    (pages # <<>> /\ LastOf(pages).error) =>
        /\ pc = "idle"
        /\ \A i \in 1..(Len(pages) - 1) : ~pages[i].error
        /\ all_issues = RecordsOfPages(pages, Len(pages) - 1)
        /\ cached_issues = Some(all_issues)
        /\ call[1].fetched =>
              /\ last_fetch_time = Some(call[1].current_time)
              /\ result = Some(GetDataResult(all_issues, call[1].query))

\* the second or a later request failed after records had been accumulated
C10_Witness ==
    /\ pages # <<>>
    /\ LastOf(pages).error
    /\ Len(pages) >= 2
    /\ all_issues # <<>>

\* C11: with JIRA_URL unset every get_data call reaches fetch_issues, which
\* raises the configuration error (ValueError) at once: no wait_if_needed call,
\* no request, and the limiter's window, the clock and the cache stay as
\* they were
C11_UnconfiguredFailsFirst ==
    [][(call_count' = call_count + 1 /\ ~JIRA_URL) =>
          /\ fetch_count' = fetch_count + 1
          /\ result' # None
          /\ result'[1].error = "ValueError"
          /\ pc' = "idle"
          /\ wait_calls' = wait_calls
          /\ pages' = pages
          /\ requests' = requests
          /\ clock' = clock
          /\ cached_issues' = cached_issues
          /\ last_fetch_time' = last_fetch_time]_vars

\* two failed calls in a row: nothing cached, nothing requested
C11_Witness ==
    /\ ~JIRA_URL
    /\ call_count >= 2
    /\ fetch_count = call_count
    /\ result # None
    /\ result[1].error = "ValueError"
    /\ cached_issues = None
    /\ requests = <<>>

\* C12: in a run of fetch_issues the requests sent so far are as many as the
\* wait_if_needed calls completed so far; a step sends a request exactly when
\* it has made one wait_if_needed call, which recorded its entry time in the
\* limiter's window
C12_EveryRequestGated ==
    /\ [](Len(pages) = wait_calls)
    /\ [][/\ Len(pages') = Len(pages) + 1 =>
              /\ wait_calls' = wait_calls + 1
              /\ requests' # <<>>
              /\ LastOf(requests') = clock
          /\ (requests' # requests \/ wait_calls' > wait_calls) =>
              Len(pages') = Len(pages) + 1
          /\ Len(pages') # Len(pages) =>
              (Len(pages') = Len(pages) + 1 \/ (pages' = <<>> /\ wait_calls' = 0))]_vars

\* a fetch of three requests, each with its limiter call
C12_Witness ==
    /\ Len(pages) >= 3
    /\ wait_calls = Len(pages)
    /\ Len(requests) >= 3

----------------------------------------------------------------------------
(* Claims about the pure functions *)

\* the status-to-stage table, keyed by the status in lower case
StageTable ==
    (<<"o", "p", "e", "n">> :> "Open") @@
    (<<"s", "a", "m", "p", "l", "e", " ", "p", "r", "e", "p">> :> "Sample Preparation") @@
    (<<"s", "a", "m", "p", "l", "e", " ", "p", "r", "e", "p", "a", "r", "a", "t", "i", "o", "n">> :>
        "Sample Preparation") @@
    (<<"t", "e", "s", "t", "i", "n", "g">> :> "Testing") @@
    (<<"r", "e", "p", "o", "r", "t">> :> "Report")

Stages == {"Open", "Sample Preparation", "Testing", "Report", "Other"}

\* two characters that are the same letter in either case, or the same character
SameLetter(a, b) ==
    \/ a = b
    \/ a \in DOMAIN LowerMap /\ LowerMap[a] = b
    \/ b \in DOMAIN LowerMap /\ LowerMap[b] = a

EqualIgnoringCase(a, b) ==
    /\ Len(a) = Len(b)
    /\ \A i \in DOMAIN a : SameLetter(a[i], b[i])

\* C13: determine_stage returns one of the five stages for every status; a
\* status that is an entry of the status-to-stage table in any letter case
\* gets the stage of that entry, every other status gets Other; statuses
\* that differ only in letter case get the same stage
C13_StageOfStatus ==
    (fn = "determine_stage" /\ ret # None) =>
        /\ ret[1] \in Stages
        /\ \A t \in DOMAIN StageTable : EqualIgnoringCase(arg, t) => ret[1] = StageTable[t]
        /\ (\A t \in DOMAIN StageTable : ~EqualIgnoringCase(arg, t)) => ret[1] = "Other"
        /\ \A other \in StatusInputs :
              EqualIgnoringCase(arg, other) => determine_stage(other) = ret[1]

\* a table entry written in mixed case
C13_Witness ==
    /\ fn = "determine_stage"
    /\ arg = <<"S", "A", "m", "p", "l", "e", " ", "p", "r", "e", "p">>
    /\ ret = Some("Sample Preparation")

\* the value extract_test_number returned: Some(n), or None for Python's None
Extracted == ret[1]

\* C14: extract_test_number returns a non-negative integer for every summary,
\* and 0 for a summary without parenthesized content or without any number
C14_ReturnsNonNegativeInteger ==
    (fn = "extract_test_number" /\ ret # None) =>
        /\ Extracted # None
        /\ Extracted[1] \in Nat
        /\ (FirstParens(arg) = None \/ NUMBER_PATTERN(arg) = <<>>) => Extracted = Some(0)

HasMonth(content) == \E month \in months : Contains(content, month)
HasArrow(summary) == Contains(summary, <<"-", "-", ">">>)
HasMinus(content) == \E i \in DOMAIN content : content[i] = "-"
HasPlus(content) == \E i \in DOMAIN content : content[i] = "+"

\* the integers of the content that stand before its first "="
IntegersBeforeEquals(content) ==
    LET stop == IF \E i \in DOMAIN content : content[i] = "="
                THEN CHOOSE i \in DOMAIN content :
                        content[i] = "=" /\ \A k \in 1..(i - 1) : content[k] # "="
                ELSE Len(content) + 1
        runs == NUMBER_PATTERN(SubSeq(content, 1, stop - 1))
    IN  [i \in DOMAIN runs |-> ParseInt(runs[i])]

\* what the rule for the arrow gives
ArrowValue(summary) ==
    IF ARROW_NUM_PATTERN(summary) # None THEN ARROW_NUM_PATTERN(summary)[1]
    ELSE IF NUM_IN_PARENS_PATTERN(summary) # None THEN NUM_IN_PARENS_PATTERN(summary)[1]
    ELSE 0

WellFormedJobNumber(s) ==
    \E n \in 1..Len(s), close \in 1..Len(s) :
        /\ close > 11 + n
        /\ \A i \in 1..4 : s[i] \in DOMAIN LowerMap
        /\ \A i \in 5..8 : s[i] \in DOMAIN DigitValue
        /\ s[9] = "."
        /\ s[10] \in DOMAIN DigitValue
        /\ \A i \in 11..(10 + n) : IsSpace(s[i])
        /\ s[11 + n] = "("
        /\ s[close] = ")"

\* C16: the validity check accepts a summary if and only if it begins with
\* four uppercase letters, four digits, a dot, one digit, whitespace and a
\* parenthesized suffix; it rejects "not-a-job-123" and accepts
\* "WXYZ0007.2 (12)"
C16_JobNumberFormat ==
    (fn = "is_valid_job_number" /\ ret # None) =>
        /\ ret[1] <=> WellFormedJobNumber(arg)
        /\ arg = <<"n", "o", "t", "-", "a", "-", "j", "o", "b", "-", "1", "2", "3">> =>
              ret[1] = FALSE
        /\ arg = <<"W", "X", "Y", "Z", "0", "0", "0", "7", ".", "2", " ", "(", "1", "2", ")">> =>
              ret[1] = TRUE

\* the accepted example
C16_Witness ==
    /\ fn = "is_valid_job_number"
    /\ arg = <<"W", "X", "Y", "Z", "0", "0", "0", "7", ".", "2", " ", "(", "1", "2", ")">>
    /\ ret = Some(TRUE)

----------------------------------------------------------------------------
(* Claims about invalid summaries, the stage filter and empty results *)

\* the fetched issues, valid or not, that exist on day D and are in the stage
\* on that day
FetchedInStage(D, stage) ==
    {k \in DOMAIN cached_issues[1] :
        /\ DateOf(cached_issues[1][k].created) <= D
        /\ CurrentStage(ProcessedRow(cached_issues[1][k]), D) = stage}

\* C17: a fetched issue whose summary fails the validity check is listed in
\* the invalid-job diagnostics and still counts 1 under its stage of the day
\* in a table of whole-issue counts
C17_InvalidCountedByStatus ==
    (CountsAllIssues /\ table[1].stages = <<>>) =>
        /\ \A k \in DOMAIN cached_issues[1] :
              ~ValidJobNumber(cached_issues[1][k].summary) =>
                  \E j \in DOMAIN df[1].invalid_jobs :
                      df[1].invalid_jobs[j].key = cached_issues[1][k].key
        /\ \A i \in DOMAIN table[1].result.index, c \in DOMAIN table[1].result.columns :
              table[1].result.counts[i][table[1].result.columns[c]]
                  = Cardinality(FetchedInStage(table[1].result.index[i],
                                               table[1].result.columns[c]))

\* the table was computed with a stage filter
HasFilteredTable == HasTable /\ table[1].stages # <<>>

\* the same call without the stage filter
Unfiltered ==
    aggregate_data(df[1].rows, DateRange(table[1].start, table[1].end), table[1].unit, <<>>)

NoStatusChanges == \A k \in DOMAIN cached_issues[1] : ChangesOf(cached_issues[1][k]) = <<>>

\* C19: when no issue has a status change, the count of every stage column
\* in a later row of the table is at least its count in an earlier row, for
\* whole-issue counts and for test-number counts
C19_MonotoneWithoutChanges ==
    (HasTable /\ NoStatusChanges) =>
        \A i, j \in DOMAIN table[1].result.index :
            i < j =>
                \A c \in DOMAIN table[1].result.columns :
                    table[1].result.counts[i][table[1].result.columns[c]]
                        <= table[1].result.counts[j][table[1].result.columns[c]]

\* test-number counts of issues without status changes that grow from the
\* first row to the last
C19_Witness ==
    /\ HasTable
    /\ NoStatusChanges
    /\ table[1].unit = "Test Number"
    /\ Len(cached_issues[1]) = 2
    /\ Len(table[1].result.index) >= 2
    /\ \E c \in DOMAIN table[1].result.columns :
          /\ table[1].result.counts[1][table[1].result.columns[c]] >= 1
          /\ table[1].result.counts[1][table[1].result.columns[c]]
                < table[1].result.counts[Len(table[1].result.index)][table[1].result.columns[c]]

\* no cached issue has a valid summary: nothing was fetched, or only invalid ones
NothingValidCached ==
    /\ cached_issues # None
    /\ \A k \in DOMAIN cached_issues[1] : ~ValidJobNumber(cached_issues[1][k].summary)

\* C20: with JIRA_URL set, a get_data call that finds no valid issue returns
\* a table with one row of zeros for every date of the requested range
C20_EmptyResultIsZeroTable ==
    (JIRA_URL /\ pc = "idle" /\ result # None /\ NothingValidCached) =>
        /\ result[1].error = "None"
        /\ result[1].aggregated_data.index
              = DateRange(call[1].query.start_date, call[1].query.end_date)
        /\ \A i \in DOMAIN result[1].aggregated_data.index :
              \A c \in DOMAIN result[1].aggregated_data.columns :
                  result[1].aggregated_data.counts[i][result[1].aggregated_data.columns[c]] = 0

----------------------------------------------------------------------------
(* Claims about test-number counts, the usage query, the rows of the table, *)
(* the pagination offsets, termination and the cache across calls          *)

\* what the claim has an issue add with unit = test-number: the extracted
\* number, 0 when extract_test_number finds nothing to parse
TestNumberOrZero(issue) ==
    IF extract_test_number(issue.job_number) = None THEN 0
    ELSE extract_test_number(issue.job_number)[1]

\* the sum of TestNumberOrZero over the processed issues in the stage on the date
RECURSIVE TestNumbersIn(_, _, _, _)
TestNumbersIn(rows, date, stage, columns) ==
    IF rows = <<>> THEN 0
    ELSE (IF Counted(Head(rows), date, columns) /\ CurrentStage(Head(rows), date) = stage
          THEN TestNumberOrZero(Head(rows))
          ELSE 0)
         + TestNumbersIn(Tail(rows), date, stage, columns)

\* C21: with unit = test-number aggregate_data returns a table for every
\* list of processed issues, and every cell is the sum of the extracted test
\* numbers of the issues in that stage on that day, an issue whose
\* parenthesized content cannot be parsed adding 0
C21_TestNumberAddsZeroWhenUnparseable ==
    (table # None /\ table[1].unit = "Test Number") =>
        /\ table[1].result.error = "None"
        /\ \A i \in DOMAIN table[1].result.index, c \in DOMAIN table[1].result.columns :
              table[1].result.counts[i][table[1].result.columns[c]]
                  = TestNumbersIn(df[1].rows, table[1].result.index[i],
                                  table[1].result.columns[c], table[1].result.columns)

\* C22: a get_current_usage call (the step that renews the usage report)
\* leaves the recorded request times, the quota, the buffer and the clock as
\* they were, so the time a wait_if_needed call would sleep is the same
\* before and after it
C22_UsageQueryLeavesLimiter ==
    [][usage' # usage =>
          /\ requests' = requests
          /\ requests_per_minute' = requests_per_minute
          /\ buffer' = buffer
          /\ clock' = clock
          /\ released' = released
          /\ slept' = slept
          /\ SleepTime(requests', clock', requests_per_minute', buffer')
                = SleepTime(requests, clock, requests_per_minute, buffer)]_vars

\* a usage report taken below the threshold, after which a wait_if_needed
\* call has blocked
C22_Witness ==
    /\ usage # None
    /\ usage[1].current_requests >= 1
    /\ usage[1].current_requests < Threshold
    /\ Len(slept) > usage[1].current_requests
    /\ slept[Len(slept)] > 0

\* the processed issues created on or before day D
ProcessedBy(D) == {r \in DOMAIN df[1].rows : DateOf(df[1].rows[r].created_date) <= D}

\* C23: in a table of whole-issue counts, with or without a stage filter, the
\* counts of a row add up to at most the number of processed issues created
\* on or before the date of the row
C23_RowSumWithinCreated ==
    (HasTable /\ table[1].unit = "Job Number") =>
        \A i \in DOMAIN table[1].result.index :
            RowSum(i) <= Cardinality(ProcessedBy(table[1].result.index[i]))

\* a filtered table of whole-issue counts with a row that counts one of the
\* two issues created by its date, and an earlier row before any creation
C23_Witness ==
    /\ HasTable
    /\ table[1].unit = "Job Number"
    /\ table[1].stages # <<>>
    /\ \E i, j \in DOMAIN table[1].result.index :
          /\ i < j
          /\ ProcessedBy(table[1].result.index[i]) = {}
          /\ RowSum(j) = 1
          /\ Cardinality(ProcessedBy(table[1].result.index[j])) = 2

\* the only row of the table of the same call made for the one day D
RowOf(D) ==
    aggregate_data(df[1].rows, DateRange(D, D), table[1].unit, table[1].stages).counts[1]

\* C24: in the table of every range, the row of a date is the row that
\* aggregate_data produces when it is called for that date alone, so the row
\* is the same in the tables of all ranges that contain the date; the same
\* call made again for the same range returns the same table
C24_RowIndependentOfRange ==
    HasTable =>
        /\ table[1].result = aggregate_data(df[1].rows, DateRange(table[1].start, table[1].end),
                                            table[1].unit, table[1].stages)
        /\ \A i \in DOMAIN table[1].result.index :
              RowOf(table[1].result.index[i]) = table[1].result.counts[i]

\* a table of several rows in which a row after the first counts an issue
\* that the row before it counts as well
C24_Witness ==
    /\ HasTable
    /\ \E i \in DOMAIN table[1].result.index :
          /\ i >= 2
          /\ RowSum(i - 1) >= 1
          /\ RowSum(i) >= 1

\* the server answered the requests of the fetch from an unchanging result
\* set: every page reports the size of the set, and a page is empty only at
\* an offset past the last record
UnchangingServer ==
    \A k \in DOMAIN pages :
        ~pages[k].error =>
            /\ pages[k].total = Len(server_issues)
            /\ (pages[k].issues = <<>> => pages[k].startAt >= Len(server_issues))

\* C25: the first request of a fetch has offset 0 and every later one the
\* number of records of the pages before it; the accumulated list is always
\* the server's result set up to that number, in server order; and a fetch
\* that has ended without a failed request against an unchanging result set
\* has returned the whole set, however small the pages were
C25_OffsetsFollowAccumulated ==
    /\ \A k \in DOMAIN pages : pages[k].startAt = Len(RecordsOfPages(pages, k - 1))
    /\ all_issues = SubSeq(server_issues, 1, Len(all_issues))
    /\ (pc = "idle" /\ pages # <<>> /\ ~LastOf(pages).error /\ UnchangingServer) =>
          /\ all_issues = server_issues
          /\ cached_issues = Some(server_issues)

\* a fetch of a set of three records that came in pages smaller than the
\* server's page limit allows, and returned the whole set
C25_Witness ==
    /\ pc = "idle"
    /\ Len(server_issues) = 3
    /\ Len(pages) = 3
    /\ \A k \in DOMAIN pages : ~pages[k].error /\ Len(pages[k].issues) = 1
    /\ UnchangingServer
    /\ all_issues = server_issues

\* C26: every iteration of the loop of fetch_issues either ends the fetch or
\* makes the accumulated list longer; a fetch never sends more requests than
\* the result set has records, or one when the set is empty; and every fetch
\* that has started returns
C26_FetchTerminates ==
    /\ [][Len(pages') = Len(pages) + 1 =>
              (pc' = "idle" \/ Len(all_issues') > Len(all_issues))]_vars
    /\ [](Len(pages) <= (IF server_issues = <<>> THEN 1 ELSE Len(server_issues)))
    /\ (pc = "fetching" ~> pc = "idle")

\* a fetch that returned after as many requests as the result set has
\* records, the last of them reaching the total
C26_Witness ==
    /\ pc = "idle"
    /\ Len(server_issues) >= 2
    /\ Len(pages) = Len(server_issues)
    /\ ~LastOf(pages).error
    /\ result # None

\* C27: in every state the cached list is absent exactly when the time of
\* the last fetch is absent, and a get_data call that ends with the
\* configuration error leaves both as they were
C27_CacheAndTimestampTogether ==
    /\ []((cached_issues = None) <=> (last_fetch_time = None))
    /\ [][(call_count' = call_count + 1 /\ result' # None /\ result'[1].error = "ValueError") =>
              /\ cached_issues' = cached_issues
              /\ last_fetch_time' = last_fetch_time]_vars

\* a fetch that replaced an earlier cache and its time together
C27_Witness ==
    /\ pc = "idle"
    /\ call # None
    /\ call[1].fetched
    /\ call[1].had_cache
    /\ call[1].previous_fetch # None
    /\ cached_issues # None
    /\ last_fetch_time = Some(call[1].current_time)
    /\ last_fetch_time # call[1].previous_fetch

\* the last fetch was cut short by a failed request
TruncatedFetch == pc = "idle" /\ pages # <<>> /\ LastOf(pages).error

\* C28: the step in which a request fails puts the records accumulated so
\* far in the cache, in place of whatever was cached, and sets the time of
\* the last fetch to the time of the call; a get_data call without
\* force_refresh made after that within three minutes of that time sends no
\* request, leaves the cache as it is and processes the truncated list
C28_TruncatedFetchIsCached ==
    /\ [][(Len(pages') = Len(pages) + 1 /\ LastOf(pages').error) =>
              /\ cached_issues' = Some(all_issues)
              /\ last_fetch_time' = Some(call[1].current_time)]_vars
    /\ [][(/\ TruncatedFetch
           /\ call_count' = call_count + 1
           /\ ~call'[1].force_refresh
           /\ clock - last_fetch_time[1] <= CACHE_DURATION) =>
              /\ fetch_count' = fetch_count
              /\ pc' = "idle"
              /\ pages' = pages
              /\ requests' = requests
              /\ cached_issues' = cached_issues
              /\ last_fetch_time' = last_fetch_time
              /\ result' = Some(GetDataResult(all_issues, call'[1].query))]_vars

\* a fetch that had cached the whole set, then a forced fetch whose first
\* request failed, then a call served from the empty list it left
C28_Witness ==
    /\ TruncatedFetch
    /\ fetch_count = 2
    /\ call_count = 3
    /\ ~call[1].fetched
    /\ ~call[1].force_refresh
    /\ server_issues # <<>>
    /\ cached_issues = Some(<<>>)

\* C29: when update_data runs again while the list cached by its earlier run
\* is at most three minutes old, its get_data call has force_refresh false,
\* the selected locations as locations (a list or None) and the selected
\* unit as unit (a str), sends no request and leaves the cache as it is
C29_SecondUpdateReusesCache ==
    [][(/\ pc = "idle"
        /\ call # None
        /\ call[1].caller = "update_data"
        /\ cached_issues # None
        /\ clock - last_fetch_time[1] <= CACHE_DURATION
        /\ call_count' = call_count + 1
        /\ call'[1].caller = "update_data") =>
           /\ ~call'[1].force_refresh
           /\ ~IsStr(call'[1].query.locations)
           /\ IsStr(call'[1].query.unit)
           /\ fetch_count' = fetch_count
           /\ pc' = "idle"
           /\ cached_issues' = cached_issues
           /\ last_fetch_time' = last_fetch_time]_vars

====
